---- MODULE Spec2Model ----
(***************************************************************************)
(* ThermoMPNN-D saturation mutagenesis (v2_ssm.py): the double-mutation    *)
(* enumerator, the batched gather/fusion loop of run_double, and the       *)
(* threshold / format / filter / sort pipeline of main; and the structure  *)
(* parser of ssm_utils.py with its chain check and residue renumbering.    *)
(*                                                                         *)
(* Numbers.  ddG values, embeddings and edge features are integers (fixed  *)
(* point); coordinates are integers in units of 0.01 Angstrom on a line,   *)
(* so that a Euclidean distance is an absolute difference and round(2) of  *)
(* a distance changes nothing.  NaN is one distinguished value that every  *)
(* comparison rejects and every sum propagates.                            *)
(*                                                                         *)
(* Indices.  Positions and amino-acid indices are 0-based as in the code;  *)
(* TLA+ sequences are 1-based, so element i of a Python list is s[i+1].    *)
(***************************************************************************)
EXTENDS Integers, Sequences, FiniteSets, TLC

VARIABLES
  \* get_ssm_mutations_double
  epc, seq, seq_pos, MUT_POS, MUT_WT, pos_combos, wtAA, mutAA,
  \* run_double
  dpc, POS, MUTAA, batch_size, mutant_embedding, edges_enabled, E_idx,
  lead, consumed, mut_positions, mut_mutant_AAs, mpnn_edges, preds,
  \* main
  mpc, mode, threshold, distance, args_batch_size, pdb_seq, S, gseed, ddg, df,
  \* get_chains, custom_parse_PDB, idx_to_pdb_num
  ppc, pdb_lines, chain_arg, input_chain_list, chain_alphabet, letter_idx,
  my_dict, raised, poslist, pdb_nums

enumVars == <<epc, seq, seq_pos, MUT_POS, MUT_WT, pos_combos, wtAA, mutAA>>

doubleVars ==
  <<dpc, POS, MUTAA, batch_size, mutant_embedding, edges_enabled, E_idx,
    lead, consumed, mut_positions, mut_mutant_AAs, mpnn_edges, preds>>

mainVars ==
  <<mpc, mode, threshold, distance, args_batch_size, pdb_seq, S, gseed, ddg,
    df>>

parseVars ==
  <<ppc, pdb_lines, chain_arg, input_chain_list, chain_alphabet, letter_idx,
    my_dict, raised, poslist, pdb_nums>>

vars == <<enumVars, doubleVars, mainVars, parseVars>>

\* what the enumerator leaves alone, what run_double leaves alone, what
\* main leaves alone, and what the parser leaves alone
notEnum == <<doubleVars, mainVars, parseVars>>

notDouble == <<enumVars, mainVars, parseVars>>

notMain == <<enumVars, doubleVars, parseVars>>

notParse == <<enumVars, doubleVars, mainVars>>

(***************************** bounds **************************************)
\* longest wild-type sequence enumerated
MaxLen == 3

\* residues of the structure run_double gathers from
NumRes == 3

\* neighbours per residue in the encoder's neighbour index list
TopK == 2

\* most mutations in a dataset handed to run_double
MaxMuts == 3

\* largest configured batch size
MaxBatch == 3

\* longest wild-type sequence of a run of main
MainLen == 3

\* residue number of the first residue in the structure file
FirstResn == 5

\* most ATOM lines in a structure file handed to the parser
MaxLines == 3

\* how many consecutive residue numbers, from FirstResn on, the lines of a
\* file may carry
ResnSpan == 3

(************************** program constants ******************************)
ALPHABET ==
  <<"A", "C", "D", "E", "F", "G", "H", "I", "K", "L", "M",
    "N", "P", "Q", "R", "S", "T", "V", "W", "Y", "X">>

\* np.arange(20): the standard amino acids a mutation may introduce
NumMut == 20

\* 20 x 20 mutant pairs per position pair
NumMutPairs == NumMut * NumMut

\* the symbol of a missing residue in pdb['seq']
GAP == "-"

\* symbols the bounded wild-type sequences are drawn from: the first, the
\* second and the last standard amino acid, and the gap
SeqSymbols == {"A", "C", "Y", GAP}

(****************************** helpers ************************************)
\* ALPHABET[i] for a 0-based i
Alpha(i) == ALPHABET[i + 1]

\* ALPHABET.index(c); the code raises ValueError for a symbol not in it
InAlphabet(c) == \E i \in 1..Len(ALPHABET) : ALPHABET[i] = c

AlphabetIndex(c) == (CHOOSE i \in 1..Len(ALPHABET) : ALPHABET[i] = c) - 1

\* a[~mask] for parallel arrays: the rows of s whose mask entry is FALSE
DropMasked(s, mask) ==
  LET idx == SelectSeq([k \in 1..Len(s) |-> k], LAMBDA k : ~mask[k])
  IN  [j \in 1..Len(idx) |-> s[idx[j]]]

\* np.repeat(s, n, axis=0)
Repeat(s, n) == [k \in 1..(Len(s) * n) |-> s[((k - 1) \div n) + 1]]

\* np.tile(s, (n, 1))
Tile(s, n) == [k \in 1..(Len(s) * n) |-> s[((k - 1) % Len(s)) + 1]]

(********************* get_ssm_mutations_double ****************************)
\* itertools.product(MUT_POS, MUT_POS) in its order, self-combos removed
PosProduct(mp) ==
  LET n   == Len(mp)
      all == [k \in 1..(n * n) |-> <<mp[((k - 1) \div n) + 1], mp[((k - 1) % n) + 1]>>]
  IN  SelectSeq(all, LAMBDA p : p[1] # p[2])

\* wtAA[p_idx, :] = ALPHABET.index(MUT_WT[pos_combos[p_idx, :]])
FillWt(pc, mw) ==
  [k \in 1..Len(pc) |-> <<AlphabetIndex(mw[pc[k][1] + 1]), AlphabetIndex(mw[pc[k][2] + 1])>>]

\* one = arange(20).repeat(20); two = tile(arange(20), 20); stack([one, two]).T
MutBundle == [k \in 1..NumMutPairs |-> <<(k - 1) \div NumMut, (k - 1) % NumMut>>]

\* mask = np.sum(mutAA == wtAA, -1).astype(bool)
SelfMaskMutant(m, w) == [k \in 1..Len(m) |-> m[k][1] = w[k][1] /\ m[k][2] = w[k][2]]

SelfMask(m, w) == [k \in 1..Len(m) |-> m[k][1] = w[k][1] \/ m[k][2] = w[k][2]]

\* mask = pos_combos[:, 0] > pos_combos[:, 1]
TriangleMaskMutant(pc) == [k \in 1..Len(pc) |-> FALSE]

TriangleMask(pc) == [k \in 1..Len(pc) |-> pc[k][1] > pc[k][2]]

\* the state of a function that is not running
EnumIdle ==
  /\ epc = "idle"
  /\ seq = <<>>
  /\ seq_pos = 0
  /\ MUT_POS = <<>>
  /\ MUT_WT = <<>>
  /\ pos_combos = <<>>
  /\ wtAA = <<>>
  /\ mutAA = <<>>

DoubleIdle ==
  /\ dpc = "idle"
  /\ POS = <<>>
  /\ MUTAA = <<>>
  /\ batch_size = 0
  /\ mutant_embedding = FALSE
  /\ edges_enabled = FALSE
  /\ E_idx = <<>>
  /\ lead = 0
  /\ consumed = 0
  /\ mut_positions = <<>>
  /\ mut_mutant_AAs = <<>>
  /\ mpnn_edges = <<>>
  /\ preds = <<>>

MainIdle ==
  /\ mpc = "idle"
  /\ mode = "single"
  /\ threshold = 0
  /\ distance = 0
  /\ args_batch_size = 0
  /\ pdb_seq = <<>>
  /\ S = <<>>
  /\ gseed = 0
  /\ ddg = <<>>
  /\ df = <<>>

\* an absent chain request: given is FALSE for None
NoChains == [given |-> FALSE, ids |-> <<>>]

NoDict == [chains |-> <<>>, seq |-> <<>>, num_of_chains |-> 0]

ParseIdle ==
  /\ ppc = "idle"
  /\ pdb_lines = <<>>
  /\ chain_arg = NoChains
  /\ input_chain_list = NoChains
  /\ chain_alphabet = <<>>
  /\ letter_idx = 0
  /\ my_dict = NoDict
  /\ raised = <<>>
  /\ poslist = <<>>
  /\ pdb_nums = <<>>

EnumStart ==
  /\ epc = "scan"
  /\ \E n \in 1..MaxLen : seq \in [1..n -> SeqSymbols]
  /\ seq_pos = 0
  /\ MUT_POS = <<>>
  /\ MUT_WT = <<>>
  /\ pos_combos = <<>>
  /\ wtAA = <<>>
  /\ mutAA = <<>>

EnumInit == EnumStart /\ DoubleIdle /\ MainIdle /\ ParseIdle

\* one iteration of the loop over seq_pos
ScanResidue ==
  /\ epc = "scan"
  /\ seq_pos < Len(seq)
  /\ IF seq[seq_pos + 1] # GAP
       THEN /\ MUT_POS' = Append(MUT_POS, seq_pos)
            /\ MUT_WT' = Append(MUT_WT, seq[seq_pos + 1])
       ELSE /\ MUT_POS' = MUT_POS
            /\ MUT_WT' = Append(MUT_WT, GAP)
  /\ seq_pos' = seq_pos + 1
  /\ UNCHANGED <<epc, seq, pos_combos, wtAA, mutAA>>
  /\ UNCHANGED notEnum

\* pos_combos and the wild-type index of each combo
PosCombos ==
  /\ epc = "scan"
  /\ seq_pos = Len(seq)
  /\ pos_combos' = PosProduct(MUT_POS)
  /\ wtAA' = FillWt(pos_combos', MUT_WT)
  /\ epc' = "combos"
  /\ UNCHANGED <<seq, seq_pos, MUT_POS, MUT_WT, mutAA>>
  /\ UNCHANGED notEnum

\* the 400 mutant pairs tiled over the combos, the combos repeated 400 times
Broadcast ==
  /\ epc = "combos"
  /\ mutAA' = Tile(MutBundle, Len(pos_combos))
  /\ wtAA' = Repeat(wtAA, NumMutPairs)
  /\ pos_combos' = Repeat(pos_combos, NumMutPairs)
  /\ epc' = "bundle"
  /\ UNCHANGED <<seq, seq_pos, MUT_POS, MUT_WT>>
  /\ UNCHANGED notEnum

\* filter out self-mutations and single mutations.  With fewer than two
\* non-gap residues pos_combos and wtAA are 1-D empty arrays of shape [0]
\* while mutAA has shape [0, 2]: mutAA == wtAA does not broadcast, and the
\* function raises there or, with a numpy that answers False, at
\* pos_combos[:, 0] of the next filter.
FilterSelf ==
  /\ epc = "bundle"
  /\ IF Len(pos_combos) = 0
       THEN /\ epc' = "error"
            /\ UNCHANGED <<pos_combos, wtAA, mutAA>>
       ELSE LET mask == SelfMask(mutAA, wtAA)
            IN  /\ pos_combos' = DropMasked(pos_combos, mask)
                /\ mutAA' = DropMasked(mutAA, mask)
                /\ wtAA' = DropMasked(wtAA, mask)
                /\ epc' = "self"
  /\ UNCHANGED <<seq, seq_pos, MUT_POS, MUT_WT>>
  /\ UNCHANGED notEnum

\* filter out the duplicate ordering of each position pair, and return
FilterTriangle ==
  /\ epc = "self"
  /\ LET mask == TriangleMask(pos_combos)
     IN  /\ pos_combos' = DropMasked(pos_combos, mask)
         /\ mutAA' = DropMasked(mutAA, mask)
         /\ wtAA' = DropMasked(wtAA, mask)
  /\ epc' = "done"
  /\ UNCHANGED <<seq, seq_pos, MUT_POS, MUT_WT>>
  /\ UNCHANGED notEnum

EnumNext ==
  \/ ScanResidue
  \/ PosCombos
  \/ Broadcast
  \/ FilterSelf
  \/ FilterTriangle

SpecEnum == EnumInit /\ [][EnumNext]_vars

(**************************** enumerator claims ****************************)
\* the two site substitutions of returned row k, as an unordered pair
SitePair(k) ==
  {<<pos_combos[k][1], mutAA[k][1]>>, <<pos_combos[k][2], mutAA[k][2]>>}

\* C1: the returned rows are in canonical order (position1 < position2) and
\* no double mutation is returned twice, also not with its two sites swapped:
\* the rows are pairwise different as unordered pairs of site substitutions.
C1_NoSwapDuplicates ==
  epc = "done" =>
    /\ \A k \in 1..Len(pos_combos) : pos_combos[k][1] < pos_combos[k][2]
    /\ Cardinality({SitePair(k) : k \in 1..Len(pos_combos)}) = Len(pos_combos)
    /\ Len(mutAA) = Len(pos_combos)

\* three non-gap residues: both orderings of three position pairs were
\* enumerated and one of each survives, with its 19 x 19 substitutions
C1_Witness ==
  /\ epc = "done"
  /\ Len(MUT_POS) = 3
  /\ Len(pos_combos) = 3 * 19 * 19

\* C2: no returned row has, at either of its two sites, a mutant amino acid
\* equal to the wild-type amino acid of the sequence at that site.
C2_NoSelfMutation ==
  epc = "done" =>
    \A k \in 1..Len(pos_combos) : \A i \in 1..2 :
      /\ Alpha(mutAA[k][i]) # seq[pos_combos[k][i] + 1]
      /\ mutAA[k][i] # wtAA[k][i]

\* a sequence with a gap and two standard residues, whose 39 rows with a
\* self-mutation at one or both sites were dropped from the 400
C2_Witness ==
  /\ epc = "done"
  /\ \E i \in 1..Len(seq) : seq[i] = GAP
  /\ Len(mutAA) = 19 * 19

\* the rows the enumeration is said to consist of: every pair of non-gap
\* positions p1 < p2 of the sequence with every pair of standard mutant amino
\* acids that differ from the wild types, as <<positions, wild types, mutants>>
NonGap == {p \in 0..(Len(seq) - 1) : seq[p + 1] # GAP}

ExpectedRows ==
  {<<<<p1, p2>>, <<AlphabetIndex(seq[p1 + 1]), AlphabetIndex(seq[p2 + 1])>>,
     <<m1, m2>>>> :
     <<p1, p2, m1, m2>> \in
       {c \in NonGap \X NonGap \X (0..(NumMut - 1)) \X (0..(NumMut - 1)) :
          /\ c[1] < c[2]
          /\ Alpha(c[3]) # seq[c[1] + 1]
          /\ Alpha(c[4]) # seq[c[2] + 1]}}

ReturnedRows ==
  {<<pos_combos[k], wtAA[k], mutAA[k]>> : k \in 1..Len(pos_combos)}

\* the three returned arrays have equally many rows, which are the expected
\* rows, each once
RowsAsExpected ==
  /\ Len(wtAA) = Len(pos_combos)
  /\ Len(mutAA) = Len(pos_combos)
  /\ ReturnedRows = ExpectedRows
  /\ Len(pos_combos) = Cardinality(ExpectedRows)
  /\ (\A i \in 1..Len(seq) : seq[i] # GAP) =>
       2 * Len(pos_combos) = Len(seq) * (Len(seq) - 1) * 19 * 19

\* C14: for every wild-type sequence, gaps or not, the enumerator returns
\* three arrays of equally many rows, which are exactly the pairs of non-gap
\* positions p1 < p2 (dense indices) with the pairs of standard mutant amino
\* acids differing from the wild types, the wild-type pair of a row being
\* the alphabet indices of the sequence at its positions; n gap-free
\* residues give n(n-1)/2 * 19 * 19 rows.
C14_EnumerationExact ==
  /\ epc # "error"
  /\ epc = "done" => RowsAsExpected

\* the same for the sequences on which the enumerator returns
C14_RowsWhenReturned == epc = "done" => RowsAsExpected

(******************************* run_double ********************************)
\* torch.nan
NaN == 999999

\* torch.nan_to_num(edge, nan=0)
NanToNumMutant(x) == x

NanToNum(x) == IF x = NaN THEN 0 ELSE x

Min(a, b) == IF a < b THEN a ELSE b

Positions == 0..(NumRes - 1)

\* The encoder's outputs for the one structure of a run, a distinct finite
\* non-zero value per row: all_mpnn_hid[0, p], mpnn_embed[0, p] and
\* mpnn_edges_raw[0, p, k] (k 0-based)
HidOf(p) == 100 + p

EmbOf(p) == 40 + 10 * p

EdgeRaw(p, k) == 1000 + 10 * p + k

\* model.prot_mpnn.W_s: the sequence embedding of an amino-acid index
W_s(aa) == aa + 1

\* model.light_attention, applied to one site's concatenated representation
LightAttention(g) ==
  IF Len(g) = 3 THEN g[1] + 3 * g[2] + 7 * g[3] ELSE g[1] + 3 * g[2]

\* model.ddg_out on the concatenation of two reduced site embeddings: a head
\* that is not symmetric in its two halves
DdgOut(e) == ((2 * e[1] + e[2]) % 11) - 5

\* _dist(X[:, :, 1, :], mask)[1] for n residues: a neighbour index list of
\* min(TopK, n) distinct positions per residue; r selects which window of
\* positions it holds
NeighbourLists(n, r) ==
  [p \in 0..(n - 1) |-> [k \in 1..Min(TopK, n) |-> (p + r + k - 1) % n]]

\* mutant pairs the bounded datasets are drawn from
MutChoices == <<<<0, 19>>, <<5, 5>>>>

OrderedPairs == PosProduct([k \in 1..NumRes |-> k - 1])

UpperPairs == SelectSeq(OrderedPairs, LAMBDA p : p[1] < p[2])

Swap(t) == <<t[2], t[1]>>

\* the rows datasets are cut from: each position pair with each mutant pair,
\* followed by the same double mutation with its two sites swapped
AllRows ==
  [k \in 1..(Len(UpperPairs) * Len(MutChoices) * 2) |->
     LET u  == UpperPairs[((k - 1) \div (2 * Len(MutChoices))) + 1]
         m  == MutChoices[(((k - 1) \div 2) % Len(MutChoices)) + 1]
     IN  IF (k - 1) % 2 = 0 THEN <<u, m>> ELSE <<Swap(u), Swap(m)>>]

\* n consecutive rows of AllRows (cyclically) from row start
Dataset(start, n) ==
  [i \in 1..n |-> AllRows[((start + i - 2) % Len(AllRows)) + 1]]

\* entry of run_double: the shared tensors repeated batch_size times
DoubleStart ==
  /\ dpc = "loop"
  /\ \E start \in 1..Len(AllRows), n \in 1..MaxMuts :
       /\ POS = [i \in 1..n |-> Dataset(start, n)[i][1]]
       /\ MUTAA = [i \in 1..n |-> Dataset(start, n)[i][2]]
  /\ batch_size \in 1..MaxBatch
  /\ mutant_embedding \in BOOLEAN
  /\ edges_enabled \in BOOLEAN
  /\ \E r \in Positions : E_idx = NeighbourLists(NumRes, r)
  /\ lead = batch_size
  /\ consumed = 0
  /\ mut_positions = <<>>
  /\ mut_mutant_AAs = <<>>
  /\ mpnn_edges = <<>>
  /\ preds = <<>>

DoubleInit == DoubleStart /\ EnumIdle /\ MainIdle /\ ParseIdle

\* for b in loader: the next batch_size rows in order, fewer at the end
LoadBatch ==
  /\ dpc = "loop"
  /\ consumed < Len(POS)
  /\ LET last == Min(consumed + batch_size, Len(POS))
     IN  /\ mut_positions' = SubSeq(POS, consumed + 1, last)
         /\ mut_mutant_AAs' = SubSeq(MUTAA, consumed + 1, last)
  /\ dpc' = "gather"
  /\ UNCHANGED <<POS, MUTAA, batch_size, mutant_embedding, edges_enabled,
                 E_idx, lead, consumed, mpnn_edges, preds>>
  /\ UNCHANGED notDouble

\* idx = torch.where(E_idx_tmp[:, None, :] == mp_other): the slots (0-based)
\* of position cur's neighbour list that hold the other mutated position
Hits(eidx, cur, other) ==
  {k \in 0..(Len(eidx[cur]) - 1) : eidx[cur][k + 1] = other}

\* edge = full(nan); edge[a, :] = mpnn_edges_tmp[a, c, :]
EdgeFill(eidx, cur, other) ==
  IF Hits(eidx, cur, other) = {} THEN NaN
  ELSE EdgeRaw(cur, CHOOSE k \in Hits(eidx, cur, other) : TRUE)

\* the edge of site n_current (1 or 2) of one batch member
EdgeOf(eidx, pos, n_current) ==
  NanToNum(EdgeFill(eidx, pos[n_current], pos[3 - n_current]))

\* if REAL_batch_size != mpnn_edges_raw.shape[0]: x = x[:REAL_batch_size, ...]
\* for the four shared tensors: their leading size afterwards
ResliceMutant(ld, real) == ld

Reslice(ld, real) == IF real # ld THEN Min(ld, real) ELSE ld

\* the loop over n_current: re-slice the shared tensors when the batch is
\* not of their leading size, gather both edges of every member, stack them
GatherEdges ==
  /\ dpc = "gather"
  /\ LET REAL_batch_size == Len(mut_mutant_AAs)
     IN  /\ lead' = Reslice(lead, REAL_batch_size)
         /\ IF lead' # REAL_batch_size
              THEN /\ dpc' = "error"
                   /\ mpnn_edges' = mpnn_edges
              ELSE /\ dpc' = "fuse"
                   /\ mpnn_edges' =
                        [j \in 1..REAL_batch_size |->
                           <<EdgeOf(E_idx, mut_positions[j], 1),
                             EdgeOf(E_idx, mut_positions[j], 2)>>]
  /\ UNCHANGED <<POS, MUTAA, batch_size, mutant_embedding, edges_enabled,
                 E_idx, consumed, mut_positions, mut_mutant_AAs, preds>>
  /\ UNCHANGED notDouble

\* g_embed of site i of a batch member with positions pos, mutants mut and
\* gathered edges edge; me and ee are cfg.model.mutant_embedding and
\* cfg.model.edges
SiteEmbed(me, ee, pos, mut, edge, i) ==
  LET p        == pos[i]
      g_struct == HidOf(p)
      g_seq    == IF me THEN EmbOf(p) - W_s(mut[i]) ELSE EmbOf(p)
  IN  IF ee THEN <<g_struct, g_seq, edge[i]>> ELSE <<g_struct, g_seq>>

\* final_embed[:, j, :] after light_attention
FinalEmbed(me, ee, pos, mut, edge) ==
  <<LightAttention(SiteEmbed(me, ee, pos, mut, edge, 1)),
    LightAttention(SiteEmbed(me, ee, pos, mut, edge, 2))>>

EmbedAB(fe) == <<fe[1], fe[2]>>

EmbedBAMutant(fe) == <<fe[1], fe[2]>>

EmbedBA(fe) == <<fe[2], fe[1]>>

\* ddg = (ddG_A + ddG_B) / 2.
Mean2(x, y) == (x + y) \div 2

\* ddg of one batch member
RowPred(me, ee, pos, mut, edge) ==
  LET final_embed == FinalEmbed(me, ee, pos, mut, edge)
  IN  Mean2(DdgOut(EmbedAB(final_embed)), DdgOut(EmbedBA(final_embed)))

BatchPred(j) ==
  RowPred(mutant_embedding, edges_enabled,
          mut_positions[j], mut_mutant_AAs[j], mpnn_edges[j])

\* gather, reduce, predict in both orders, average, extend preds
Fuse ==
  /\ dpc = "fuse"
  /\ preds' = preds \o [j \in 1..Len(mut_positions) |-> BatchPred(j)]
  /\ consumed' = consumed + Len(mut_positions)
  /\ dpc' = "loop"
  /\ UNCHANGED <<POS, MUTAA, batch_size, mutant_embedding, edges_enabled,
                 E_idx, lead, mut_positions, mut_mutant_AAs, mpnn_edges>>
  /\ UNCHANGED notDouble

\* the loader is exhausted: return np.squeeze(preds)
ReturnPreds ==
  /\ dpc = "loop"
  /\ consumed = Len(POS)
  /\ dpc' = "done"
  /\ UNCHANGED <<POS, MUTAA, batch_size, mutant_embedding, edges_enabled,
                 E_idx, lead, consumed, mut_positions, mut_mutant_AAs,
                 mpnn_edges, preds>>
  /\ UNCHANGED notDouble

DoubleNext ==
  \/ LoadBatch
  \/ GatherEdges
  \/ Fuse
  \/ ReturnPreds

SpecDouble == DoubleInit /\ [][DoubleNext]_vars

(**************************** run_double claims ****************************)
\* the edge of position p to position q as the claims describe it: the edge
\* vector at the slot of q in p's neighbour list, or zero without such a slot
NeighbourEdge(p, q) ==
  IF \E k \in 1..TopK : E_idx[p][k] = q
    THEN EdgeRaw(p, (CHOOSE k \in 1..TopK : E_idx[p][k] = q) - 1)
    ELSE 0

\* the reduced representation of a site at p mutated to m whose partner is q
SiteRepr(p, m, q) ==
  LET s == IF mutant_embedding THEN EmbOf(p) - W_s(m) ELSE EmbOf(p)
  IN  LightAttention(IF edges_enabled THEN <<HidOf(p), s, NeighbourEdge(p, q)>>
                     ELSE <<HidOf(p), s>>)

\* the mean of the head on (site A, site B) and on (site B, site A)
SymmetrizedPred(pos, mut) ==
  LET A == SiteRepr(pos[1], mut[1], pos[2])
      B == SiteRepr(pos[2], mut[2], pos[1])
  IN  Mean2(DdgOut(<<A, B>>), DdgOut(<<B, A>>))

\* C3: every prediction of run_double is the mean of the head applied to the
\* two sites' representations in order (A, B) and in order (B, A), each
\* representation following its site; so two rows that are the same double
\* mutation with the sites swapped get the same prediction.
C3_SymmetrizedPrediction ==
  /\ \A i \in 1..Len(preds) : preds[i] = SymmetrizedPred(POS[i], MUTAA[i])
  /\ \A i, j \in 1..Len(preds) :
       (POS[j] = Swap(POS[i]) /\ MUTAA[j] = Swap(MUTAA[i])) => preds[i] = preds[j]

\* a finished run over a dataset holding a double mutation in both input
\* orders, on which the head gives different values for the two orders
C3_Witness ==
  /\ dpc = "done"
  /\ mutant_embedding /\ edges_enabled
  /\ \E i, j \in 1..Len(preds) :
       /\ i # j
       /\ POS[j] = Swap(POS[i]) /\ MUTAA[j] = Swap(MUTAA[i])
       /\ MUTAA[i][1] # MUTAA[i][2]
       /\ NeighbourEdge(POS[i][1], POS[i][2]) # NeighbourEdge(POS[i][2], POS[i][1])
       /\ LET A == SiteRepr(POS[i][1], MUTAA[i][1], POS[i][2])
              B == SiteRepr(POS[i][2], MUTAA[i][2], POS[i][1])
          IN  DdgOut(<<A, B>>) # DdgOut(<<B, A>>)

\* C4: after the edge gather of a batch, for every member and each of its two
\* mutated positions the edge is the position's edge vector at the slot of the
\* other position in its neighbour list, exactly zero when the other position
\* is not in the list, and never NaN.
C4_EdgeGather ==
  dpc = "fuse" =>
    /\ Len(mpnn_edges) = Len(mut_positions)
    /\ \A j \in 1..Len(mpnn_edges) : \A i \in 1..2 :
         LET p == mut_positions[j][i]
             q == mut_positions[j][3 - i]
         IN  /\ \A k \in 1..TopK :
                  E_idx[p][k] = q => mpnn_edges[j][i] = EdgeRaw(p, k - 1)
             /\ (\A k \in 1..TopK : E_idx[p][k] # q) => mpnn_edges[j][i] = 0
             /\ mpnn_edges[j][i] # NaN

\* a gathered batch with a member whose first site has its partner among its
\* neighbours and whose second site has not
C4_Witness ==
  /\ dpc = "fuse"
  /\ \E j \in 1..Len(mpnn_edges) :
       /\ \E k \in 1..TopK : E_idx[mut_positions[j][1]][k] = mut_positions[j][2]
       /\ \A k \in 1..TopK : E_idx[mut_positions[j][2]][k] # mut_positions[j][1]
       /\ mpnn_edges[j][1] # 0
       /\ mpnn_edges[j][2] = 0

\* C11: for every number of mutations and every batch size B >= 1 run_double
\* raises no error on a final batch smaller than B: when a batch is gathered,
\* the leading size of the shared hidden-state, sequence-embedding, edge and
\* neighbour-index tensors is that batch's size, and the finished call holds
\* one prediction per mutation.
C11_TailBatchResliced ==
  /\ dpc # "error"
  /\ dpc = "fuse" =>
       /\ lead = Len(mut_mutant_AAs)
       /\ Len(mpnn_edges) = lead
  /\ dpc = "done" => Len(preds) = Len(POS)

\* a finished run whose mutations do not fill a whole number of batches: the
\* shared tensors were cut down for the last one
C11_Witness ==
  /\ dpc = "done"
  /\ Len(POS) > batch_size
  /\ Len(POS) % batch_size # 0
  /\ lead = Len(POS) % batch_size
  /\ lead < batch_size
  /\ Len(preds) = Len(POS)

(********************************* main ************************************)
\* a comparison with NaN is false
Leq(x, y) == x # NaN /\ y # NaN /\ x <= y

\* number of columns of the single-mutation grid: one per ALPHABET symbol
NumAA == Len(ALPHABET)

\* the wild-type sequences of the bounded runs: the windows of a template
\* read cyclically, with standard residues and missing residues
SeqTemplate == <<"A", "C", "D", GAP, GAP, "Y">>

Window(start, n) ==
  [i \in 1..n |-> SeqTemplate[((start + i - 2) % Len(SeqTemplate)) + 1]]

\* --threshold, --distance, --mode
Thresholds == {-3, 0, 100}

Cutoffs == {3, 10}

Modes == {"single", "additive", "epistatic"}

\* what --mode may be given as: any string
ModeArgs == Modes \cup {"double"}

\* --batch_size: only the epistatic mode reads it
BatchSizes(md) ==
  IF md = "epistatic" THEN {MaxBatch - 1, MaxBatch} ELSE {MaxBatch}

\* the cutoffs a run of mode md is given (--distance is read in the double
\* modes only)
CutoffArgs(md) ==
  IF md = "additive" THEN Cutoffs ELSE IF md = "single" THEN {10} ELSE {3}

\* seeds of the raw predictions of the bounded runs
GridSeeds == {0, 4}

\* tied_featurize_mut: S holds the ALPHABET index of each residue, a missing
\* residue as X
Featurize(sq) ==
  [i \in 1..Len(sq) |->
     IF sq[i] = GAP THEN AlphabetIndex("X") ELSE AlphabetIndex(sq[i])]

\* model.ddg_out(all_mpnn_hid): the raw [L, 21] predictions, finite values
RawDdg(g, n) ==
  [p \in 1..n |-> [a \in 1..NumAA |-> ((g + 3 * (p - 1) + 5 * (a - 1)) % 7) - 3]]

\* batched_index_select(ddg, dim=-1, index=S): [L, 1], row p holds ddg[p, S[p]]
BatchedIndexSelect(g, s) == [p \in 1..Len(g) |-> g[p][s[p] + 1]]

\* ddg - wt_ddg.expand(-1, 21)
NormaliseMutant(g, s) ==
  [p \in 1..Len(g) |-> [a \in 1..NumAA |-> g[p][a] - g[p][1]]]

Normalise(g, s) ==
  LET wt_ddg == BatchedIndexSelect(g, s)
  IN  [p \in 1..Len(g) |-> [a \in 1..NumAA |-> g[p][a] - wt_ddg[p]]]

Digits == <<"0", "1", "2", "3", "4", "5", "6", "7", "8", "9">>

\* str(n) of a natural number
RECURSIVE Str(_)
Str(n) ==
  IF n < 10 THEN <<Digits[n + 1]>>
  ELSE Str(n \div 10) \o <<Digits[(n % 10) + 1]>>

\* int(t) of a string of digits
DigitVal(c) == (CHOOSE i \in 1..Len(Digits) : Digits[i] = c) - 1

RECURSIVE ParseInt(_)
ParseInt(t) ==
  IF Len(t) = 1 THEN DigitVal(t[1])
  ELSE 10 * ParseInt(SubSeq(t, 1, Len(t) - 1)) + DigitVal(t[Len(t)])

\* mut.str[1:-1].astype(int)
NamePos(m) == ParseInt(SubSeq(m, 2, Len(m) - 1))

\* df['Mutation'].str.split(':', n=2, expand=True): the two single mutations
\* of a double-mutation name
ColonAt(nm) ==
  CHOOSE i \in 1..Len(nm) : nm[i] = ":" /\ \A j \in 1..(i - 1) : nm[j] # ":"

Mut1(nm) == SubSeq(nm, 1, ColonAt(nm) - 1)

Mut2(nm) == SubSeq(nm, ColonAt(nm) + 1, Len(nm))

\* wtAA + str(L_idx + 1) + mutAA
SingleName(wt, p, mut) == <<wt>> \o Str(p + 1) \o <<mut>>

\* f'{wt1}{p1 + 1}{mut1}:{wt2}{p2 + 1}{mut2}'
DoubleName(wt1, p1, mut1, wt2, p2, mut2) ==
  SingleName(wt1, p1, mut1) \o <<":">> \o SingleName(wt2, p2, mut2)

\* ddg <= threshold on the grid with the X column dropped
KeepSingleMutant(v, T) == v # NaN /\ v < T

KeepSingle(v, T) == Leq(v, T)

\* format_output_single: the kept values (boolean-mask indexing) and the
\* names of the kept cells (np.where), both in row-major order, as the rows
\* of the table main builds from them
FormatOutputSingle(g, s, T) ==
  LET cells   == [k \in 1..(Len(g) * NumMut) |->
                    <<(k - 1) \div NumMut, (k - 1) % NumMut>>]
      keep    == SelectSeq(cells, LAMBDA c : KeepSingle(g[c[1] + 1][c[2] + 1], T))
      flat    == [k \in 1..(Len(g) * NumMut) |->
                    g[((k - 1) \div NumMut) + 1][((k - 1) % NumMut) + 1]]
      kept    == SelectSeq(flat, LAMBDA v : KeepSingle(v, T))
      mutlist == [i \in 1..Len(keep) |->
                    SingleName(Alpha(s[keep[i][1] + 1]), keep[i][1], Alpha(keep[i][2]))]
  IN  [i \in 1..Len(keep) |-> [ddG |-> kept[i], Mutation |-> mutlist[i]]]

\* expand_additive: entry (p1, a1, p2, a2) of ddgA + ddgB with the diagonal
\* p1 = p2 set to NaN
ExpandAdditive(g, p1, a1, p2, a2) ==
  IF p1 = p2 THEN NaN ELSE g[p1 + 1][a1 + 1] + g[p2 + 1][a2 + 1]

\* cond = (p1s < p2s)
UpperTriangle(p1, p2) == p1 < p2

\* if (wt1 != mut1) and (wt2 != mut2)
NotSelfMutant(wt1, mut1, wt2, mut2) == wt1 # mut1 \/ wt2 # mut2

NotSelf(wt1, mut1, wt2, mut2) == wt1 # mut1 /\ wt2 # mut2

\* format_output_double: np.where over the [L, 20, L, 20] grid in row-major
\* order, the upper triangle kept, self-mutations dropped in the loop
FormatOutputDouble(g, s, T) ==
  LET L      == Len(g)
      n      == L * NumMut
      cells  == [k \in 1..(n * n) |->
                   <<((k - 1) \div n) \div NumMut, ((k - 1) \div n) % NumMut,
                     ((k - 1) % n) \div NumMut, ((k - 1) % n) % NumMut>>]
      where  == SelectSeq(cells,
                   LAMBDA c : Leq(ExpandAdditive(g, c[1], c[2], c[3], c[4]), T))
      upper  == SelectSeq(where, LAMBDA c : UpperTriangle(c[1], c[3]))
      wt_seq == [i \in 1..L |-> Alpha(s[i])]
      loop   == SelectSeq(upper,
                   LAMBDA c : NotSelf(wt_seq[c[1] + 1], Alpha(c[2]),
                                      wt_seq[c[3] + 1], Alpha(c[4])))
  IN  [i \in 1..Len(loop) |->
         [ddG |-> ExpandAdditive(g, loop[i][1], loop[i][2], loop[i][3], loop[i][4]),
          Mutation |-> DoubleName(wt_seq[loop[i][1] + 1], loop[i][1], Alpha(loop[i][2]),
                                  wt_seq[loop[i][3] + 1], loop[i][3], Alpha(loop[i][4]))]]

MainStart ==
  /\ mpc = "start"
  /\ mode \in ModeArgs
  /\ threshold \in Thresholds
  /\ distance \in CutoffArgs(mode)
  /\ args_batch_size \in BatchSizes(mode)
  /\ \E start \in 1..Len(SeqTemplate), n \in 2..MainLen : pdb_seq = Window(start, n)
  /\ S = <<>>
  /\ gseed \in (IF mode = "epistatic" THEN {0} ELSE GridSeeds)
  /\ ddg = <<>>
  /\ df = <<>>

MainInit == MainStart /\ EnumIdle /\ DoubleIdle /\ ParseIdle

\* get_config: the mode picks the auxiliary configuration, any other mode
\* raises ValueError("Invalid mode selected!")
ValidModeMutant(md) == TRUE

ValidMode(md) ==
  \/ md = "single" \/ md = "additive"
  \/ md = "epistatic"

\* cfg = get_config(args.mode), the first statement of main
GetConfig ==
  /\ mpc = "start"
  /\ mpc' = IF ValidMode(mode) THEN "config" ELSE "config_error"
  /\ UNCHANGED <<mode, threshold, distance, args_batch_size, pdb_seq, S, gseed,
                 ddg, df>>
  /\ UNCHANGED notMain

\* run_single_ssm: featurize, one pass of the model, wild-type normalisation
RunSingleSsm ==
  /\ mpc = "config"
  /\ mode \in {"single", "additive"}
  /\ S' = Featurize(pdb_seq)
  /\ ddg' = Normalise(RawDdg(gseed, Len(pdb_seq)), S')
  /\ mpc' = "ssm"
  /\ UNCHANGED <<mode, threshold, distance, args_batch_size, pdb_seq, gseed, df>>
  /\ UNCHANGED notMain

\* format_output_single and the DataFrame of its two lists
FormatSingle ==
  /\ mpc = "ssm"
  /\ mode = "single"
  /\ df' = FormatOutputSingle(ddg, S, threshold)
  /\ mpc' = "table"
  /\ UNCHANGED <<mode, threshold, distance, args_batch_size, pdb_seq, S, gseed, ddg>>
  /\ UNCHANGED notMain

\* format_output_double and the DataFrame of its two lists
FormatDouble ==
  /\ mpc = "ssm"
  /\ mode = "additive"
  /\ df' = FormatOutputDouble(ddg, S, threshold)
  /\ mpc' = "table"
  /\ UNCHANGED <<mode, threshold, distance, args_batch_size, pdb_seq, S, gseed, ddg>>
  /\ UNCHANGED notMain

\* get_ssm_mutations_double as one function of the sequence: the steps of
\* ScanResidue .. FilterTriangle composed.  MUT_WT is the sequence itself.
NonGapPositions(sq) ==
  SelectSeq([i \in 1..Len(sq) |-> i - 1], LAMBDA q : sq[q + 1] # GAP)

GetSsmMutationsDouble(sq) ==
  LET combos == PosProduct(NonGapPositions(sq))
      pos0   == Repeat(combos, NumMutPairs)
      wt0    == Repeat(FillWt(combos, sq), NumMutPairs)
      mut0   == Tile(MutBundle, Len(combos))
      self   == SelfMask(mut0, wt0)
      pos1   == DropMasked(pos0, self)
      wt1    == DropMasked(wt0, self)
      mut1   == DropMasked(mut0, self)
      tri    == TriangleMask(pos1)
  IN  [pos |-> DropMasked(pos1, tri),
       wt  |-> DropMasked(wt1, tri),
       mut |-> DropMasked(mut1, tri)]

\* DataLoader(dataset, shuffle=False, batch_size=B): batch b (0-based) holds
\* the rows from BatchStart on, B of them or what is left
NumBatches(n, B) == (n + B - 1) \div B

BatchStart(b, B) == b * B

BatchLen(n, B, b) == Min(B, n - BatchStart(b, B))

\* member j (1-based) of batch b
LoaderRowMutant(rows, B, b, j) == rows[j]

LoaderRow(rows, B, b, j) == rows[BatchStart(b, B) + j]

\* run_double as one function of the loader: for each batch in turn the
\* prediction of each of its members (LoadBatch, GatherEdges and Fuse), the
\* batches' predictions appended to preds in the order of the batches.
\* np.squeeze leaves a list of two or more predictions as it is.
RunDouble(eidx, me, ee, pos, mut, B) ==
  LET nb    == NumBatches(Len(pos), B)
      total == IF nb = 0 THEN 0
               ELSE (nb - 1) * B + BatchLen(Len(pos), B, nb - 1)
  IN  [k \in 1..total |->
         LET b == (k - 1) \div B
             j == ((k - 1) % B) + 1
             p == LoaderRow(pos, B, b, j)
             m == LoaderRow(mut, B, b, j)
         IN  RowPred(me, ee, p, m, <<EdgeOf(eidx, p, 1), EdgeOf(eidx, p, 2)>>)]

\* format_output_epistatic: mask = ddg <= threshold on the parallel arrays,
\* then one name per kept row
FormatOutputEpistatic(p_ddg, pos, wt, mut, T) ==
  LET mask == [k \in 1..Len(p_ddg) |-> ~Leq(p_ddg[k], T)]
      kd   == DropMasked(p_ddg, mask)
      kw   == DropMasked(wt, mask)
      km   == DropMasked(mut, mask)
      kp   == DropMasked(pos, mask)
  IN  [b \in 1..Len(kd) |->
         [ddG |-> kd[b],
          Mutation |-> DoubleName(Alpha(kw[b][1]), kp[b][1], Alpha(km[b][1]),
                                  Alpha(kw[b][2]), kp[b][2], Alpha(km[b][2]))]]

\* run_epistatic_ssm and the DataFrame of its two lists; ddg holds what
\* run_double returned (preds).  The enumerator
\* raises on a sequence with fewer than two residues present, which ends the
\* run.  The epistatic configuration enables mutant embeddings and edges.
RunEpistaticSsm ==
  /\ mpc = "config"
  /\ mode = "epistatic"
  /\ S' = Featurize(pdb_seq)
  /\ IF Len(NonGapPositions(pdb_seq)) < 2
       THEN /\ mpc' = "error"
            /\ ddg' = ddg
            /\ df' = df
       ELSE LET m == GetSsmMutationsDouble(pdb_seq)
                p_ddg == RunDouble(NeighbourLists(Len(pdb_seq), 1), TRUE, TRUE,
                                   m.pos, m.mut, args_batch_size)
            IN  /\ ddg' = p_ddg
                /\ df' = FormatOutputEpistatic(p_ddg, m.pos, m.wt, m.mut, threshold)
                /\ mpc' = "table"
  /\ UNCHANGED <<mode, threshold, distance, args_batch_size, pdb_seq, gseed>>
  /\ UNCHANGED notMain

\* The parsed structure, one chain: the backbone N and C-alpha coordinate of
\* each residue on a line, NaN for a missing residue
CoordN(sq, p) == IF sq[p + 1] = GAP THEN NaN ELSE 3 * p - 1 - (p % 2)

CoordCA(sq, p) == IF sq[p + 1] = GAP THEN NaN ELSE 3 * p

\* cdist of two points of the line
Cdist(x, y) ==
  IF x = NaN \/ y = NaN THEN NaN ELSE IF x < y THEN y - x ELSE x - y

\* dmat = cdist(coo, coo) with coo = pdb[coord][f'N_chain_{ch}']
Dmat(sq, p1, p2) == Cdist(CoordN(sq, p1), CoordN(sq, p2))

\* .round(2) of a distance in units of 0.01
Round2(x) == x

\* distance_filter: positions parsed from the names, the distance of each
\* row, the rows within the cutoff, the distance rounded
DistanceFilterRows(rows, sq, cutoff) ==
  LET with == [i \in 1..Len(rows) |->
                 [ddG |-> rows[i].ddG, Mutation |-> rows[i].Mutation,
                  CA_CA |-> Dmat(sq, NamePos(Mut1(rows[i].Mutation)) - 1,
                                     NamePos(Mut2(rows[i].Mutation)) - 1)]]
      kept == SelectSeq(with, LAMBDA r : Leq(r.CA_CA, cutoff))
  IN  [i \in 1..Len(kept) |->
         [ddG |-> kept[i].ddG, Mutation |-> kept[i].Mutation,
          CA_CA |-> Round2(kept[i].CA_CA)]]

DistanceFilter ==
  /\ mpc = "table"
  /\ mode # "single"
  /\ df' = DistanceFilterRows(df, pdb_seq, distance)
  /\ mpc' = "filtered"
  /\ UNCHANGED <<mode, threshold, distance, args_batch_size, pdb_seq, S, gseed, ddg>>
  /\ UNCHANGED notMain

SetMin(ks) == CHOOSE m \in ks : \A k \in ks : m <= k

Reverse(t) == [i \in 1..Len(t) |-> t[Len(t) + 1 - i]]

\* the indices 1..Len(keys) sorted by key; rows of equal key stay in their
\* order, or are reversed when rev (a sort that is not stable)
RECURSIVE Buckets(_, _, _)
Buckets(keys, ks, rev) ==
  IF ks = {} THEN <<>>
  ELSE LET m == SetMin(ks)
           b == SelectSeq([i \in 1..Len(keys) |-> i], LAMBDA i : keys[i] = m)
       IN  (IF rev THEN Reverse(b) ELSE b) \o Buckets(keys, ks \ {m}, rev)

SortIndices(keys, rev) == Buckets(keys, {keys[i] : i \in 1..Len(keys)}, rev)

\* df.dropna(subset=['ddG (kcal/mol)'])
DropNa(rows) == SelectSeq(rows, LAMBDA r : r.ddG # NaN)

\* df.sort_values(by=['ddG (kcal/mol)']): quicksort, the order of rows of
\* equal ddG is not fixed
SortByDdg(rows, rev) ==
  LET idx == SortIndices([i \in 1..Len(rows) |-> rows[i].ddG], rev)
  IN  [i \in 1..Len(rows) |-> rows[idx[i]]]

\* pos1 and pos2 of main, as one key ordered as the pair (positions < 1000)
PosKey(nm) == (NamePos(Mut1(nm)) + 1) * 1000 + (NamePos(Mut2(nm)) + 1)

\* df.sort_values(by=['pos1', 'pos2']): a stable sort on the two keys
SortByPosMutant(rows) == rows

SortByPos(rows) ==
  LET idx == SortIndices([i \in 1..Len(rows) |-> PosKey(rows[i].Mutation)], FALSE)
  IN  [i \in 1..Len(rows) |-> rows[idx[i]]]

\* if args.threshold <= -0.
SortsByDdg(T) == T <= 0

\* dropna, the ddG sort when the threshold is not positive, the position
\* sort in the double modes
SortRows ==
  /\ \/ mpc = "table" /\ mode = "single"
     \/ mpc = "filtered"
  /\ \E rev \in BOOLEAN :
       LET clean  == DropNa(df)
           by_ddg == IF SortsByDdg(threshold) THEN SortByDdg(clean, rev) ELSE clean
       IN  df' = IF mode # "single" THEN SortByPos(by_ddg) ELSE by_ddg
  /\ mpc' = "sorted"
  /\ UNCHANGED <<mode, threshold, distance, args_batch_size, pdb_seq, S, gseed, ddg>>
  /\ UNCHANGED notMain

\* pdb['resn_list']: the residue id of each position, missing residues filled
ResnList(p) == Str(FirstResn + p)

\* wt + resn_list[pos] + mt of one single-mutation name
RenumberOne(m) == <<m[1]>> \o ResnList(NamePos(m) - 1) \o <<m[Len(m)]>>

RenumberName(md, nm) ==
  IF md = "single" THEN RenumberOne(nm)
  ELSE RenumberOne(Mut1(nm)) \o <<":">> \o RenumberOne(Mut2(nm))

\* renumber_pdb and df.to_csv
RenumberAndWrite ==
  /\ mpc = "sorted"
  /\ df' = [i \in 1..Len(df) |->
              [df[i] EXCEPT !.Mutation = RenumberName(mode, df[i].Mutation)]]
  /\ mpc' = "written"
  /\ UNCHANGED <<mode, threshold, distance, args_batch_size, pdb_seq, S, gseed, ddg>>
  /\ UNCHANGED notMain

MainNext ==
  \/ GetConfig
  \/ RunSingleSsm
  \/ RunEpistaticSsm
  \/ FormatSingle
  \/ FormatDouble
  \/ DistanceFilter
  \/ SortRows
  \/ RenumberAndWrite

SpecMain == MainInit /\ [][MainNext]_vars

(******************************* main claims *******************************)
\* the wild-type symbol of position p (0-based) as the formatters print it
WtSymbol(p) == Alpha(S[p + 1])

GridPos == 0..(Len(ddg) - 1)

MutAAs == 0..(NumMut - 1)

\* the double mutations the additive claim asks for
DoubleHits ==
  {c \in GridPos \X MutAAs \X GridPos \X MutAAs :
     /\ c[1] < c[3]
     /\ Alpha(c[2]) # WtSymbol(c[1])
     /\ Alpha(c[4]) # WtSymbol(c[3])
     /\ ddg[c[1] + 1][c[2] + 1] + ddg[c[3] + 1][c[4] + 1] <= threshold}

DoubleEntry(c) ==
  [ddG |-> ddg[c[1] + 1][c[2] + 1] + ddg[c[3] + 1][c[4] + 1],
   Mutation |-> <<WtSymbol(c[1])>> \o Str(c[1] + 1) \o <<Alpha(c[2])>> \o <<":">>
                \o <<WtSymbol(c[3])>> \o Str(c[3] + 1) \o <<Alpha(c[4])>>]

\* C5: format_output_double returns exactly one entry for each (p1, a1, p2,
\* a2) with p1 < p2, a1 and a2 standard amino acids other than the wild types
\* of p1 and p2, and grid[p1][a1] + grid[p2][a2] <= T; its ddG is that sum
\* and its name {wt1}{p1+1}{mut1}:{wt2}{p2+1}{mut2}; no entry uses a position
\* twice; with T = 100 on three standard residues there are 3*19*19 entries.
C5_AdditiveEntries ==
  (mpc = "table" /\ mode = "additive") =>
    /\ {df[i] : i \in 1..Len(df)} = {DoubleEntry(c) : c \in DoubleHits}
    /\ Len(df) = Cardinality(DoubleHits)
    /\ \A i \in 1..Len(df) :
         NamePos(Mut1(df[i].Mutation)) # NamePos(Mut2(df[i].Mutation))
    /\ (threshold = 100 /\ Len(pdb_seq) = 3 /\ \A i \in 1..3 : pdb_seq[i] # GAP)
         => Len(df) = 1083

\* the permissive threshold on three standard residues
C5_Witness ==
  /\ mpc = "table" /\ mode = "additive"
  /\ threshold = 100
  /\ \A i \in 1..Len(pdb_seq) : pdb_seq[i] # GAP
  /\ Len(df) = 3 * 19 * 19

\* the cells of the L x 20 grid at or below the threshold
SingleHits ==
  {c \in GridPos \X MutAAs : ddg[c[1] + 1][c[2] + 1] <= threshold}

SingleEntry(c) ==
  [ddG |-> ddg[c[1] + 1][c[2] + 1],
   Mutation |-> <<WtSymbol(c[1])>> \o Str(c[1] + 1) \o <<Alpha(c[2])>>]

\* C6: format_output_single returns exactly the entries (p, a) of the L x 20
\* grid whose value is <= T, each once, in row-major order, the i-th ddG
\* belonging to the i-th name, each name {wild type at p}{p+1}{symbol of a}.
C6_SingleEntries ==
  (mpc = "table" /\ mode = "single") =>
    /\ Len(df) = Cardinality(SingleHits)
    /\ \A i \in 1..Len(df) : \E c \in SingleHits : df[i] = SingleEntry(c)
    /\ \A i \in 1..(Len(df) - 1) :
         LET c == CHOOSE x \in SingleHits : df[i] = SingleEntry(x)
             d == CHOOSE x \in SingleHits : df[i + 1] = SingleEntry(x)
         IN  c[1] * NumMut + c[2] < d[1] * NumMut + d[2]

\* a threshold that keeps some cells of the grid and drops others
C6_Witness ==
  /\ mpc = "table" /\ mode = "single"
  /\ Len(df) > 1
  /\ Len(df) < Len(ddg) * NumMut

\* C7: every single mutation output by single mode has a mutant amino acid
\* different from its wild-type amino acid, at a position that does not carry
\* the gap symbol, for every threshold.
C7_ValidSingles ==
  (mpc = "table" /\ mode = "single") =>
    \A i \in 1..Len(df) :
      LET nm == df[i].Mutation
      IN  /\ nm[1] # nm[Len(nm)]
          /\ pdb_seq[NamePos(nm)] # GAP

\* C8: after the wild-type normalisation the grid value at (p, wild type of
\* p) is zero and every value at p is the raw prediction minus the raw
\* prediction of p's wild-type amino acid.
C8_WildTypeZero ==
  (mpc # "start" /\ mode \in {"single", "additive"}) =>
    LET raw == RawDdg(gseed, Len(pdb_seq))
    IN  \A p \in 1..Len(ddg) :
          /\ ddg[p][S[p] + 1] = 0
          /\ \A a \in 1..NumAA : ddg[p][a] = raw[p][a] - raw[p][S[p] + 1]

\* a normalised grid whose raw wild-type predictions were not zero
C8_Witness ==
  /\ mpc = "ssm"
  /\ \A p \in 1..Len(ddg) : RawDdg(gseed, Len(pdb_seq))[p][S[p] + 1] # 0
  /\ \E p \in 1..Len(ddg) : S[p] # 0

\* the rows are in ascending order of ddG
DdgAscending(rows) ==
  \A i \in 1..(Len(rows) - 1) : rows[i].ddG <= rows[i + 1].ddG

\* the position key of a row of the table of the given mode
RowPosition(md, r) ==
  IF md = "single" THEN NamePos(r.Mutation) ELSE PosKey(r.Mutation)

\* the rows are in ascending order of position (of the position pair in the
\* double modes)
PositionAscending(md, rows) ==
  \A i \in 1..(Len(rows) - 1) :
    RowPosition(md, rows[i]) <= RowPosition(md, rows[i + 1])

\* C9 as stated: in every mode the final table is sorted by ddG ascending
\* unless the threshold is non-negative, and by position otherwise.
C9_SortedAsStated ==
  mpc = "written" =>
    IF threshold < 0 THEN DdgAscending(df) ELSE PositionAscending(mode, df)

\* C9 amended: in single mode the final table is sorted by ddG ascending when
\* the threshold is <= 0 and is in position order when it is > 0; in the
\* additive and epistatic modes it is always sorted by (position1,
\* position2) and, when the threshold is <= 0, by ddG ascending among the
\* rows of one position pair.
C9_SortOrder ==
  mpc = "written" =>
    IF mode = "single"
      THEN IF threshold <= 0 THEN DdgAscending(df) ELSE PositionAscending(mode, df)
      ELSE /\ PositionAscending(mode, df)
           /\ threshold <= 0 =>
                \A i \in 1..(Len(df) - 1) :
                  RowPosition(mode, df[i]) = RowPosition(mode, df[i + 1])
                    => df[i].ddG <= df[i + 1].ddG

\* a written additive table under a negative threshold that is in position
\* order and not in ddG order
C9_Witness ==
  /\ mpc = "written"
  /\ mode = "additive"
  /\ threshold < 0
  /\ Len(df) > 1
  /\ ~DdgAscending(df)

\* the C-alpha to C-alpha distance of the two positions a row names
CaDistance(r) ==
  Cdist(CoordCA(pdb_seq, NamePos(Mut1(r.Mutation)) - 1),
        CoordCA(pdb_seq, NamePos(Mut2(r.Mutation)) - 1))

\* the rows within the cutoff by C-alpha distance, each with that distance
CaFiltered(rows) ==
  LET kept == SelectSeq(rows, LAMBDA r : Leq(CaDistance(r), distance))
  IN  [i \in 1..Len(kept) |->
         [ddG |-> kept[i].ddG, Mutation |-> kept[i].Mutation,
          CA_CA |-> CaDistance(kept[i])]]

\* C10: in the double modes distance_filter keeps exactly the rows whose two
\* mutated positions have a C-alpha to C-alpha distance <= the cutoff, and
\* reports for each kept row that C-alpha to C-alpha distance.
C10_CaDistanceFilter ==
  [][(mpc = "table" /\ mode # "single") => df' = CaFiltered(df)]_vars

\* C12: a run mode other than single, additive or epistatic ends the run in
\* the error get_config raises, before any structure is parsed, any
\* prediction is made or any output is written.
C12_InvalidModeFailsFast ==
  mode \notin Modes =>
    /\ mpc \in {"start", "config_error"}
    /\ S = <<>>
    /\ ddg = <<>>
    /\ df = <<>>

\* a run started with mode "double" that get_config has ended
C12_Witness ==
  /\ mode = "double"
  /\ mpc = "config_error"
  /\ pdb_seq # <<>>

\* the prediction of the k-th enumerated mutation of m by itself: both edges
\* gathered for its own two positions, the head applied in both orders
OwnPrediction(m, k) ==
  RowPred(TRUE, TRUE, m.pos[k], m.mut[k],
          <<EdgeOf(NeighbourLists(Len(pdb_seq), 1), m.pos[k], 1),
            EdgeOf(NeighbourLists(Len(pdb_seq), 1), m.pos[k], 2)>>)

\* the name of the k-th enumerated mutation of m
OwnName(m, k) ==
  DoubleName(Alpha(m.wt[k][1]), m.pos[k][1], Alpha(m.mut[k][1]),
             Alpha(m.wt[k][2]), m.pos[k][2], Alpha(m.mut[k][2]))

\* C15: in epistatic mode, whatever the batch size, the i-th prediction
\* run_double returns is that of the i-th enumerated mutation, and the table
\* of format_output_epistatic holds, in enumeration order, exactly the
\* mutations whose own prediction is <= T, each with its own name
\* {w1}{p1+1}{m1}:{w2}{p2+1}{m2} and its own ddG.
C15_EpistaticRowsAligned ==
  (mode = "epistatic" /\ mpc = "table") =>
    LET m    == GetSsmMutationsDouble(pdb_seq)
        own  == [k \in 1..Len(m.pos) |-> OwnPrediction(m, k)]
        hits == SelectSeq([k \in 1..Len(m.pos) |-> k],
                          LAMBDA k : Leq(own[k], threshold))
    IN  /\ ddg = own
        /\ Len(df) = Len(hits)
        /\ \A b \in 1..Len(df) :
             /\ df[b].ddG = own[hits[b]]
             /\ df[b].Mutation = OwnName(m, hits[b])

\* an epistatic table made from batches of two or more mutations, the last
\* batch a short one, with some mutations kept and some dropped, whose
\* predictions are not all the same
C15_Witness ==
  /\ mode = "epistatic" /\ mpc = "table"
  /\ args_batch_size >= 2
  /\ Len(ddg) % args_batch_size # 0
  /\ Len(df) > 0
  /\ Len(df) < Len(ddg)
  /\ \E i, j \in 1..Len(ddg) : ddg[i] # ddg[j]
  /\ \E i \in 1..Len(pdb_seq) : pdb_seq[i] = GAP

(************** ssm_utils: get_chains, custom_parse_PDB, idx_to_pdb_num ****)
\* A structure file is its ATOM lines, of which the parser reads the chain
\* id (line[21:22]), the residue id (line[22:27].strip(), a number with an
\* optional insertion code, a string) and the residue name (line[17:20]).
ChainIds == <<"A", "B">>

InsCodes == {<<>>, <<"A">>}

ResnNumbers == FirstResn..(FirstResn + ResnSpan - 1)

\* the residue name the files give to a residue
ResiAt(n, ins) ==
  IF ins # <<>> THEN "TYR" ELSE IF n % 2 = 0 THEN "ALA" ELSE "CYS"

LineChoices ==
  {[ch |-> ChainIds[c], resn |-> Str(n) \o ins, resi |-> ResiAt(n, ins)] :
     c \in 1..Len(ChainIds), n \in ResnNumbers, ins \in InsCodes}

DigitSet == {Digits[i] : i \in 1..Len(Digits)}

\* int(num) of _, num, ins_code = re.split(r'(\d+)', resn), and int(resn[:-1])
\* or int(resn): the number of a residue id
ResnNumber(resn) == ParseInt(SelectSeq(resn, LAMBDA c : c \in DigitSet))

\* resa: resn[-1] if resn[-1].isalpha() else ""
ResnInsCode(resn) ==
  IF resn[Len(resn)] \in DigitSet THEN "" ELSE resn[Len(resn)]

ChainRank(ch) == CHOOSE c \in 1..Len(ChainIds) : ChainIds[c] = ch

\* a file as structures are written: the lines of a chain together, its
\* residues by ascending number and insertion code, the lines (atoms) of a
\* residue together
LineBefore(l, m) ==
  \/ ChainRank(l.ch) < ChainRank(m.ch)
  \/ /\ l.ch = m.ch
     /\ \/ ResnNumber(l.resn) < ResnNumber(m.resn)
        \/ /\ ResnNumber(l.resn) = ResnNumber(m.resn)
           /\ Len(l.resn) <= Len(m.resn)

WellFormed(lines) ==
  \A i \in 1..(Len(lines) - 1) : LineBefore(lines[i], lines[i + 1])

Files ==
  UNION {{f \in [1..n -> LineChoices] : WellFormed(f)} : n \in 1..MaxLines}

Range(t) == {t[i] : i \in 1..Len(t)}

\* list(dict.fromkeys(t)): the first occurrence of each element, in order
DictFromKeys(t) ==
  LET first == SelectSeq([i \in 1..Len(t) |-> i],
                         LAMBDA i : \A j \in 1..(i - 1) : t[j] # t[i])
  IN  [k \in 1..Len(first) |-> t[first[k]]]

\* structure.get_chains(): the chain ids of the file in order
PdbChains(lines) == DictFromKeys([i \in 1..Len(lines) |-> lines[i].ch])

\* the residue ids appended for one ATOM line: when the id is new and the
\* list not empty, str(int(num_prior) + g) for g in range(gap + 1), then the
\* id itself
GapFill(resn_list, resn) ==
  IF resn \notin Range(resn_list) /\ Len(resn_list) > 0
    THEN LET num       == ResnNumber(resn)
             num_prior == ResnNumber(resn_list[Len(resn_list)])
             gap       == num - num_prior - 1
         IN  [g \in 1..(gap + 1) |-> Str(num_prior + g - 1)]
    ELSE <<>>

RECURSIVE RawResnList(_, _)
RawResnList(lines, k) ==
  IF k = 0 THEN <<>>
  ELSE LET resn_list == RawResnList(lines, k - 1)
       IN  resn_list \o GapFill(resn_list, lines[k].resn) \o <<lines[k].resn>>

\* aa_3_N.get(resi, 20) then N_to_AA: the one-letter symbol of a residue name
Aa3To1(resi) ==
  CASE resi = "ALA" -> "A"
    [] resi = "CYS" -> "C"
    [] resi = "TYR" -> "Y"
    [] OTHER -> GAP

\* sorted(seq[resn]): the insertion codes of the residues numbered n + 1, ""
\* before the letters
InsOrder == <<"", "A", "B">>

SortedKeys(lines, n) ==
  SelectSeq(InsOrder,
            LAMBDA k : \E i \in 1..Len(lines) :
                         /\ ResnNumber(lines[i].resn) - 1 = n
                         /\ ResnInsCode(lines[i].resn) = k)

\* seq[resn][resa]: the residue name of the first line of that residue
FirstResi(lines, n, k) ==
  LET i == CHOOSE i \in 1..Len(lines) :
             /\ ResnNumber(lines[i].resn) - 1 = n
             /\ ResnInsCode(lines[i].resn) = k
             /\ \A j \in 1..(i - 1) :
                  ~(ResnNumber(lines[j].resn) - 1 = n /\ ResnInsCode(lines[j].resn) = k)
  IN  lines[i].resi

\* for resn in range(min_resn, max_resn + 1): the symbols of the residues
\* numbered resn + 1, or one gap symbol when there is none
RECURSIVE SeqFrom(_, _, _)
SeqFrom(lines, n, max_resn) ==
  IF n > max_resn THEN <<>>
  ELSE LET keys == SortedKeys(lines, n)
           here == IF Len(keys) = 0 THEN <<GAP>>
                   ELSE [j \in 1..Len(keys) |-> Aa3To1(FirstResi(lines, n, keys[j]))]
       IN  here \o SeqFrom(lines, n + 1, max_resn)

\* custom_parse_PDB_biounits(x, chain=letter): the sequence and the residue
\* id list of one chain, or no_chain when the file has no line of the chain
\* (range() of the untouched float bounds raises TypeError)
CustomParsePDBBiounits(lines, letter) ==
  LET mine == SelectSeq(lines, LAMBDA l : l.ch = letter)
      nums == {ResnNumber(mine[i].resn) - 1 : i \in 1..Len(mine)}
  IN  IF Len(mine) = 0 THEN [no_chain |-> TRUE, seq |-> <<>>, resn_list |-> <<>>]
      ELSE [no_chain  |-> FALSE,
            seq       |-> SeqFrom(mine, SetMin(nums),
                                  CHOOSE m \in nums : \A q \in nums : q <= m),
            resn_list |-> DictFromKeys(RawResnList(mine, Len(mine)))]

\* the chain lists a caller may ask for: None, [], or ids that the file may
\* or may not hold
ChainArgs ==
  {NoChains} \cup
  {[given |-> TRUE, ids |-> t] : t \in {<<>>, <<"A">>, <<"B">>, <<"A", "B">>}}

\* init_alphabet + extra_alphabet, as far as the chain ids of the files go
\* and one id beyond
InitAlphabet == <<"A", "B", "C">>

ParseStart ==
  /\ ppc = "start"
  /\ pdb_lines \in Files
  /\ chain_arg \in ChainArgs
  /\ input_chain_list = NoChains
  /\ chain_alphabet = <<>>
  /\ letter_idx = 0
  /\ my_dict = NoDict
  /\ raised = <<>>
  /\ poslist = <<>>
  /\ pdb_nums = <<>>

ParseInit == ParseStart /\ EnumIdle /\ DoubleIdle /\ MainIdle

\* get_chains(pdb_file, chain_list): all chains of the file for None or [],
\* and an assertion that names the chain and the chains of the file when a
\* requested chain is not among them
GetChains ==
  /\ ppc = "start"
  /\ LET pdb_chains == PdbChains(pdb_lines)
         chain_list == IF ~chain_arg.given THEN pdb_chains
                       ELSE IF Len(chain_arg.ids) < 1 THEN pdb_chains
                       ELSE chain_arg.ids
         missing    == SelectSeq(chain_list, LAMBDA ch : ch \notin Range(pdb_chains))
     IN  IF Len(missing) > 0
           THEN /\ ppc' = "assert_error"
                /\ raised' = <<missing[1], pdb_chains>>
                /\ input_chain_list' = input_chain_list
           ELSE /\ ppc' = "chains"
                /\ raised' = raised
                /\ input_chain_list' = [given |-> TRUE, ids |-> chain_list]
  /\ UNCHANGED <<pdb_lines, chain_arg, chain_alphabet, letter_idx, my_dict,
                 poslist, pdb_nums>>
  /\ UNCHANGED notParse

\* custom_parse_PDB(path, input_chain_list) up to its loop over the chain
\* letters, called with the list get_chains returned or with the caller's
\* list as it is: "if input_chain_list:" takes a non-empty list
CustomParsePDB ==
  /\ ppc \in {"start", "chains"}
  /\ LET icl == IF ppc = "start" THEN chain_arg ELSE input_chain_list
     IN  /\ input_chain_list' = icl
         /\ chain_alphabet' = IF icl.given /\ Len(icl.ids) > 0
                                THEN icl.ids ELSE InitAlphabet
  /\ letter_idx' = 0
  /\ my_dict' = NoDict
  /\ ppc' = "letters"
  /\ UNCHANGED <<pdb_lines, chain_arg, raised, poslist, pdb_nums>>
  /\ UNCHANGED notParse

\* one iteration of "for letter in chain_alphabet": a chain the file does not
\* hold comes back as no_chain and leaves my_dict as it is
ParseLetter ==
  /\ ppc = "letters"
  /\ letter_idx < Len(chain_alphabet)
  /\ LET letter == chain_alphabet[letter_idx + 1]
         got    == CustomParsePDBBiounits(pdb_lines, letter)
     IN  my_dict' =
           IF got.no_chain THEN my_dict
           ELSE [chains |-> Append(my_dict.chains,
                                   [letter |-> letter, seq |-> got.seq,
                                    resn_list |-> got.resn_list]),
                 seq |-> my_dict.seq \o got.seq,
                 num_of_chains |-> my_dict.num_of_chains + 1]
  /\ letter_idx' = letter_idx + 1
  /\ UNCHANGED <<ppc, pdb_lines, chain_arg, input_chain_list, chain_alphabet,
                 raised, poslist, pdb_nums>>
  /\ UNCHANGED notParse

\* after the loop: s <= len(chain_alphabet) holds, the dict is returned
ReturnDict ==
  /\ ppc = "letters"
  /\ letter_idx = Len(chain_alphabet)
  /\ ppc' = "parsed"
  /\ UNCHANGED <<pdb_lines, chain_arg, input_chain_list, chain_alphabet,
                 letter_idx, my_dict, raised, poslist, pdb_nums>>
  /\ UNCHANGED notParse

\* converter: the ids of the resn_list_<chain> entries one list after the
\* other, each id prefixed with its chain (offset grows by the length of
\* each list, which is never empty)
RECURSIVE Converter(_, _)
Converter(chains, k) ==
  IF k = 0 THEN <<>>
  ELSE Converter(chains, k - 1) \o
       [i \in 1..Len(chains[k].resn_list) |->
          <<chains[k].letter>> \o chains[k].resn_list[i]]

\* idx_to_pdb_num(pdb, poslist): converter[pos] for pos in poslist, a
\* KeyError for a position the converter has no entry for
IdxToPdbNum(pdb, pl) ==
  LET converter == Converter(pdb.chains, Len(pdb.chains))
  IN  IF \E k \in 1..Len(pl) : pl[k] + 1 > Len(converter)
        THEN [key_error |-> TRUE, out |-> <<>>]
        ELSE [key_error |-> FALSE,
              out |-> [k \in 1..Len(pl) |-> converter[pl[k] + 1]]]

\* position lists over the n residues of the parsed sequence: all of them
\* forwards, all of them backwards, each by itself
PosLists(n) ==
  {[k \in 1..n |-> k - 1], [k \in 1..n |-> n - k]} \cup
  {<<q>> : q \in 0..(n - 1)}

NumberPositions ==
  /\ ppc = "parsed"
  /\ Len(my_dict.seq) > 0
  /\ \E pl \in PosLists(Len(my_dict.seq)) :
       /\ poslist' = pl
       /\ LET res == IdxToPdbNum(my_dict, pl)
          IN  /\ pdb_nums' = res.out
              /\ ppc' = IF res.key_error THEN "key_error" ELSE "numbered"
  /\ UNCHANGED <<pdb_lines, chain_arg, input_chain_list, chain_alphabet,
                 letter_idx, my_dict, raised>>
  /\ UNCHANGED notParse

ParseNext ==
  \/ GetChains
  \/ CustomParsePDB
  \/ ParseLetter
  \/ ReturnDict
  \/ NumberPositions

SpecParse == ParseInit /\ [][ParseNext]_vars

(****************************** parser claims ******************************)
\* a chain was requested that the file does not hold
RequestedAbsent ==
  /\ chain_arg.given
  /\ \E i \in 1..Len(chain_arg.ids) :
       chain_arg.ids[i] \notin Range(PdbChains(pdb_lines))

NoneRequested == ~chain_arg.given \/ chain_arg.ids = <<>>

ParsedLetters == [k \in 1..Len(my_dict.chains) |-> my_dict.chains[k].letter]

\* C13: a requested chain that the structure does not hold makes parsing fail
\* with an error that lists the chains of the structure, and never gives a
\* parse result without that chain; with no chain requested (None or an empty
\* list) all chains of the structure are parsed.
C13_AbsentChainFailsFast ==
  /\ RequestedAbsent => ppc \notin {"parsed", "numbered", "key_error"}
  /\ ppc = "assert_error" =>
       /\ RequestedAbsent
       /\ raised[1] \in Range(chain_arg.ids) \ Range(PdbChains(pdb_lines))
       /\ raised[2] = PdbChains(pdb_lines)
  /\ (NoneRequested /\ ppc = "parsed") => ParsedLetters = PdbChains(pdb_lines)

\* the residue ids of the chain in the order of its dense positions: number
\* by number from the lowest to the highest of the chain, the residues of a
\* number by insertion code, and the bare number for a number without residue
RECURSIVE IdsFrom(_, _, _)
IdsFrom(present, n, last) ==
  IF n > last THEN <<>>
  ELSE LET codes == SelectSeq(InsOrder,
                              LAMBDA k : \E r \in present :
                                           ResnNumber(r) = n /\ ResnInsCode(r) = k)
           here  == IF Len(codes) = 0 THEN <<Str(n)>>
                    ELSE [j \in 1..Len(codes) |->
                            IF codes[j] = "" THEN Str(n) ELSE Str(n) \o <<codes[j]>>]
       IN  here \o IdsFrom(present, n + 1, last)

DenseIds(lines, letter) ==
  LET present == {lines[i].resn : i \in {j \in 1..Len(lines) : lines[j].ch = letter}}
      nums    == {ResnNumber(r) : r \in present}
  IN  IdsFrom(present, SetMin(nums), CHOOSE m \in nums : \A q \in nums : q <= m)

IdsAligned ==
  \A k \in 1..Len(my_dict.chains) :
    LET c == my_dict.chains[k]
    IN  /\ Len(c.resn_list) = Len(c.seq)
        /\ c.resn_list = DenseIds(pdb_lines, c.letter)

\* C16: for every chain read, the residue-id list has one entry per position
\* of the chain's sequence, in the same order: entry i is the residue id
\* (number and insertion code) at dense position i, a filled-in id for each
\* missing residue, and no id of a residue the sequence does not hold.
C16_ResidueIdsAligned == IdsAligned

\* chain id + residue id of every dense position, the chains in parse order
RECURSIVE DensePositions(_)
DensePositions(k) ==
  IF k = 0 THEN <<>>
  ELSE DensePositions(k - 1) \o
       LET ids == DenseIds(pdb_lines, my_dict.chains[k].letter)
       IN  [i \in 1..Len(ids) |-> <<my_dict.chains[k].letter>> \o ids[i]]

PositionsNumbered ==
  /\ ppc = "numbered"
  /\ Len(pdb_nums) = Len(poslist)
  /\ \A k \in 1..Len(poslist) :
       pdb_nums[k] = DensePositions(Len(my_dict.chains))[poslist[k] + 1]
  /\ \A k, l \in 1..Len(poslist) :
       poslist[k] # poslist[l] => pdb_nums[k] # pdb_nums[l]

\* C17: for a parsed structure and every list of dense positions,
\* idx_to_pdb_num returns as many elements, the k-th being the chain id
\* followed by the residue id of the residue at the k-th position, the dense
\* positions running through the chains in parse order, each chain after all
\* residues of the chains before it; distinct positions get distinct ids.
C17_DensePositionsNumbered ==
  ppc \in {"numbered", "key_error"} => PositionsNumbered

\* the same where every residue-id list is aligned with its sequence
C17_WhenIdsAligned ==
  (ppc \in {"numbered", "key_error"} /\ IdsAligned) => PositionsNumbered
====
